---- MODULE Spec2Model ----
(***************************************************************************)
(* Model of async/example-stack.c: the parent task foo, its child task bar *)
(* and the driver example_stack, over the begin / await / end protocol of  *)
(* async.h.  Memory is modelled with addresses: a control block refers to  *)
(* its frame by address, a bar frame refers to its lock by address, and    *)
(* the child's control block bar_pt is embedded in the parent's frame.     *)
(***************************************************************************)
EXTENDS Integers, Sequences, FiniteSets, TLC

\* ------------------------------------------------------------------ bounds
MaxResume == 3      \* driver calls of foo per instance
MaxLockVal == 1     \* the lock takes the values 0..MaxLockVal
MaxBarResume == 1   \* direct driver calls of bar per instance (SpecChild)

\* Two independently allocated (pt, foo_stack, bar_stack, lock) tuples; the
\* objects of instance p live at address p.
Inst == {1, 2}
LockVals == 0..MaxLockVal

\* ------------------------------------------------------- program constants
num_value == 23         \* stack->num = 23
local_num_init == 11    \* int local_num = 11
FooAwaitPoint == 110    \* position of foo's await
FooEndPoint == 116      \* position of foo's async_end
BarAwaitPoint == 126    \* position of bar's await
BarEndPoint == 129      \* position of bar's async_end

\* The values an indeterminate local_num can hold when foo is re-entered at
\* its await: the initialiser at the top is jumped over.
StaleVals == {0, local_num_init}

VARIABLES
    pt,        \* pt[p]: the control block of foo instance p
    fstack,    \* fstack[f]: struct foo_stack at address f (num, bar_pt)
    bstack,    \* bstack[b]: struct bar_stack at address b (lock: an address)
    lock,      \* lock[l]: the int at address l
    calls,     \* calls[p]: one record per driver call foo(&pt[p]), in order
    barcalls,  \* barcalls[p]: one record per direct driver call of bar
    alone,     \* alone[p]: memory and call records of the run in which the
               \* driver performs its operations on instance p only
    cpu,       \* cpu[p]: the position inside the call of foo in progress on
               \* instance p, the child's and the call's result (SpecSteps)
    reinit     \* reinit[p]: the phase of pt[p] when the driver last called
               \* async_init on it again, "NONE" before that (SpecReinit)

vars == <<pt, fstack, bstack, lock, calls, barcalls, alone, cpu, reinit>>

\* ------------------------------------------------- async.h (control block)
\* The frame reference of a zero-initialised control block.
NullFrame == 0

\* struct async: resume point, phase and the borrowed frame reference.
Block(f) == [resumePoint |-> 0, phase |-> "NOT_STARTED", stack |-> f]

async_init(blk) == [blk EXCEPT !.resumePoint = 0, !.phase = "NOT_STARTED"]

\* begin: dispatch on the recorded resume point.
async_begin(blk) == blk.resumePoint

\* await(cond) at position point: falls through when cond holds, otherwise
\* records the position and suspends.
await(blk, point, cond) ==
    IF cond THEN blk
    ELSE [blk EXCEPT !.resumePoint = point, !.phase = "SUSPENDED"]

\* end at position point: marks the block finished.
async_end(blk, point) == [blk EXCEPT !.resumePoint = point, !.phase = "FINISHED"]

\* ---------------------------------------------------------------- memory
Mem == [pt |-> pt, fstack |-> fstack, bstack |-> bstack, lock |-> lock]

\* ------------------------------------------------------------------- bar
\* bar using one statically allocated frame instead of pt->stack.
bar_stack_addr_static(m, f) == 1

\* struct bar_stack *stack = pt->stack; for the block embedded at fstack[f].
bar_stack_addr(m, f) == m.fstack[f].bar_pt.stack

\* bar without its dispatch: every call that is not finished starts at the top.
bar_entry_restart(m, f) ==
    IF m.fstack[f].bar_pt.phase = "FINISHED" THEN BarEndPoint ELSE 0

\* bar whose dispatch sends every position but the await's to the top.
bar_entry_default(m, f) ==
    IF m.fstack[f].bar_pt.resumePoint = BarAwaitPoint THEN BarAwaitPoint ELSE 0

\* async_begin(pt) in bar.
bar_entry(m, f) == async_begin(m.fstack[f].bar_pt)

\* bar waiting on one statically allocated lock instead of its frame's.
bar_lock_static(m, f) == m.lock[1]

\* *stack->lock
bar_lock(m, f) == m.lock[m.bstack[bar_stack_addr(m, f)].lock]

\* The lock tested for being non-negative instead of nonzero.
bar_await_cond_nonneg(lk) == lk >= 0

\* The await's condition negated: bar waits while the lock is nonzero.
bar_await_cond_negated(lk) == lk = 0

\* The condition of await(*stack->lock): an int used as a truth value.
bar_await_cond(lk) == lk # 0

\* bar(&fstack[f].bar_pt): the call's memory, return value, the statements
\* it executed and the lock values it read.
bar(m, f) ==
    LET entry == bar_entry(m, f)
        lk == bar_lock(m, f)
        pre == IF entry = 0 THEN <<"bar start">> ELSE <<>>
    IN  IF entry = BarEndPoint
        THEN [m |-> m, ret |-> "FINISHED", out |-> <<>>, lockseen |-> <<>>]
        ELSE IF bar_await_cond(lk)
        THEN [m |-> [m EXCEPT !.fstack[f].bar_pt =
                          async_end(await(@, BarAwaitPoint, TRUE), BarEndPoint)],
              ret |-> "FINISHED",
              out |-> pre \o <<"bar end">>,
              lockseen |-> <<lk>>]
        ELSE [m |-> [m EXCEPT !.fstack[f].bar_pt = await(@, BarAwaitPoint, FALSE)],
              ret |-> "SUSPENDED",
              out |-> pre,
              lockseen |-> <<lk>>]

\* ------------------------------------------------------------------- foo
\* foo using one statically allocated frame instead of pt->stack.
foo_stack_addr_static(m, p) == 1

\* struct foo_stack *stack = pt->stack;
foo_stack_addr(m, p) == m.pt[p].stack

\* foo without its dispatch: every call that is not finished starts at the top.
foo_entry_restart(m, p) ==
    IF m.pt[p].phase = "FINISHED" THEN FooEndPoint ELSE 0

\* foo whose dispatch sends every position but the await's to the top.
foo_entry_default(m, p) ==
    IF m.pt[p].resumePoint = FooAwaitPoint THEN FooAwaitPoint ELSE 0

\* async_begin(pt) in foo.
foo_entry(m, p) == async_begin(m.pt[p])

\* foo building bar_pt anew around a statically allocated frame instead of
\* initialising it in place.
foo_start_rebuild(m, stack) ==
    [m EXCEPT !.fstack[stack].num = num_value,
              !.fstack[stack].bar_pt = Block(1)]

\* foo without async_init(&stack->bar_pt): the child's block is left as
\* the previous run recorded it.
foo_start_noinit(m, stack) == [m EXCEPT !.fstack[stack].num = num_value]

\* foo keeping num in a transient local: the frame's num is not written.
foo_start_nonum(m, stack) == [m EXCEPT !.fstack[stack].bar_pt = async_init(@)]

\* The memory after foo's first segment: stack->num = 23 and
\* async_init(&stack->bar_pt).
foo_start(m, stack) ==
    [m EXCEPT !.fstack[stack].num = num_value,
              !.fstack[stack].bar_pt = async_init(@)]

\* The statements of foo before its await, and after it.
foo_start_out ==
    <<"foo start", "num := 23", "print num 105", "print local_num 107",
      "init bar_pt">>

foo_end_out == <<"print num 112", "print local_num 113", "foo end">>

\* The await's condition negated: foo goes on while its child is unfinished.
foo_await_cond_negated(bret) == bret # "FINISHED"

\* foo not waiting for its child: the await's condition always holds.
foo_await_cond_always(bret) == TRUE

\* The condition of await(bar(...)): the child's result as a truth value.
foo_await_cond(bret) == bret = "FINISHED"

\* foo(&pt[p]); g is the value local_num holds when the body is entered at
\* the await.
foo(m, p, g) ==
    LET stack == foo_stack_addr(m, p)
        entry == foo_entry(m, p)
        top == entry = 0
        m1 == IF top THEN foo_start(m, stack) ELSE m
        local_num == IF top THEN local_num_init ELSE g
        pre == IF top THEN foo_start_out ELSE <<>>
        b == bar(m1, stack)
        m2 == b.m
    IN  IF entry = FooEndPoint
        THEN [m |-> m, ret |-> "FINISHED", child |-> "NONE", out |-> <<>>,
              nums |-> <<>>, locals |-> <<>>, lockseen |-> <<>>]
        ELSE IF foo_await_cond(b.ret)
        THEN [m |-> [m2 EXCEPT !.pt[p] =
                          async_end(await(@, FooAwaitPoint, TRUE), FooEndPoint)],
              ret |-> "FINISHED",
              child |-> b.ret,
              out |-> pre \o <<"resume bar">> \o b.out \o foo_end_out,
              nums |-> (IF top THEN <<m1.fstack[stack].num>> ELSE <<>>)
                          \o <<m2.fstack[stack].num>>,
              locals |-> (IF top THEN <<local_num>> ELSE <<>>) \o <<local_num>>,
              lockseen |-> b.lockseen]
        ELSE [m |-> [m2 EXCEPT !.pt[p] = await(@, FooAwaitPoint, FALSE)],
              ret |-> "SUSPENDED",
              child |-> b.ret,
              out |-> pre \o <<"resume bar">> \o b.out,
              nums |-> IF top THEN <<m1.fstack[stack].num>> ELSE <<>>,
              locals |-> IF top THEN <<local_num>> ELSE <<>>,
              lockseen |-> b.lockseen]

\* --------------------------------------------------------- example_stack
\* The state after the driver's set-up: pt = {0}; async_init(&pt);
\* lock = 0; bar_stack.lock = &lock; stack.num = 0;
\* stack.bar_pt.stack = &bar_stack; pt.stack = &stack.
InitMem ==
    [pt |-> [p \in Inst |-> [async_init(Block(NullFrame)) EXCEPT !.stack = p]],
     fstack |-> [f \in Inst |-> [num |-> 0, bar_pt |-> Block(f)]],
     bstack |-> [b \in Inst |-> [lock |-> b]],
     lock |-> [l \in Inst |-> 0]]

\* No call in progress: the driver is between two calls.
Idle == [pc |-> "idle", child |-> "NONE", ret |-> "NONE", n |-> 0]

Init ==
    /\ pt = InitMem.pt
    /\ fstack = InitMem.fstack
    /\ bstack = InitMem.bstack
    /\ lock = InitMem.lock
    /\ calls = [p \in Inst |-> <<>>]
    /\ barcalls = [p \in Inst |-> <<>>]
    /\ alone = [p \in Inst |-> [m |-> InitMem, calls |-> <<>>, barcalls |-> <<>>]]
    /\ cpu = [p \in Inst |-> Idle]
    /\ reinit = [p \in Inst |-> "NONE"]

\* What the driver observes of one call of foo.
FooCall(r) ==
    [ret |-> r.ret, child |-> r.child, out |-> r.out, nums |-> r.nums,
     locals |-> r.locals, lockseen |-> r.lockseen]

\* What the driver observes of one direct call of bar.
BarCall(r) == [ret |-> r.ret, out |-> r.out, lockseen |-> r.lockseen]

\* The values local_num may hold in the call: its initialiser when the body
\* starts at the top, anything when it is entered past the initialiser.
LocalChoices(m, p) == IF foo_entry(m, p) = 0 THEN {local_num_init} ELSE StaleVals

\* foo(&pt);
ResumeFoo(p) ==
    /\ Len(calls[p]) < MaxResume
    /\ \E g \in LocalChoices(Mem, p) :
        LET r == foo(Mem, p, g)
            ra == foo(alone[p].m, p, g)
        IN
        /\ pt' = r.m.pt
        /\ fstack' = r.m.fstack
        /\ bstack' = r.m.bstack
        /\ lock' = r.m.lock
        /\ calls' = [calls EXCEPT ![p] = Append(@, FooCall(r))]
        /\ alone' = [alone EXCEPT ![p].m = ra.m,
                                  ![p].calls = Append(@, FooCall(ra))]
    /\ UNCHANGED <<barcalls, cpu, reinit>>

\* lock = v;
SetLock(p, v) ==
    /\ v # lock[p]
    /\ lock' = [lock EXCEPT ![p] = v]
    /\ alone' = [alone EXCEPT ![p].m.lock[p] = v]
    /\ UNCHANGED <<pt, fstack, bstack, calls, barcalls, cpu, reinit>>

\* bar(&stack.bar_pt); called by the driver itself.
ResumeBar(p) ==
    /\ Len(barcalls[p]) < MaxBarResume
    /\ LET r == bar(Mem, p)
           ra == bar(alone[p].m, p)
       IN
        /\ pt' = r.m.pt
        /\ fstack' = r.m.fstack
        /\ bstack' = r.m.bstack
        /\ lock' = r.m.lock
        /\ barcalls' = [barcalls EXCEPT ![p] = Append(@, BarCall(r))]
        /\ alone' = [alone EXCEPT ![p].m = ra.m,
                                  ![p].barcalls = Append(@, BarCall(ra))]
    /\ UNCHANGED <<calls, cpu, reinit>>

\* The driver of example_stack: it resumes foo and writes the lock.
Next == \E p \in Inst : ResumeFoo(p) \/ \E v \in LockVals : SetLock(p, v)

Spec == Init /\ [][Next]_vars

\* A driver that also resumes directly the child embedded in the frame of
\* the instances ChildInst.
ChildInst == {1}

NextChild == Next \/ \E p \in ChildInst : ResumeBar(p)

SpecChild == Init /\ [][NextChild]_vars

\* The driver of Spec that keeps calling foo until it reports FINISHED.
FairSpec ==
    /\ Spec
    /\ \A p \in Inst : WF_vars(ResumeFoo(p) /\ pt[p].phase # "FINISHED")

\* ------------------------------------------------------- re-initialising
\* async_init(&pt); called again by the driver, in whatever phase pt is, to
\* reuse the instance.  The log calls[p] starts again with the new run, and
\* alone[p] becomes the run of a freshly set-up instance with the same lock.
ReInit(p) ==
    /\ pt' = [pt EXCEPT ![p] = async_init(@)]
    /\ reinit' = [reinit EXCEPT ![p] = pt[p].phase]
    /\ calls' = [calls EXCEPT ![p] = <<>>]
    /\ alone' = [alone EXCEPT ![p] =
                    [m |-> [InitMem EXCEPT !.lock[p] = lock[p]],
                     calls |-> <<>>, barcalls |-> <<>>]]
    /\ UNCHANGED <<fstack, bstack, lock, barcalls, cpu>>

NextReinit == Next \/ \E p \in Inst : ReInit(p)

SpecReinit == Init /\ [][NextReinit]_vars

\* ------------------------------------------------ one call, step by step
\* The same bodies with each call of foo split at its statements: the
\* driver (or an interrupt) may write the lock while a call is in progress.
SetMem(m) ==
    /\ pt' = m.pt
    /\ fstack' = m.fstack
    /\ bstack' = m.bstack
    /\ lock' = m.lock

Goto(p, pc) == cpu' = [cpu EXCEPT ![p].pc = pc]

\* foo(&pt); the driver enters the call.
CallFoo(p) ==
    /\ cpu[p].pc = "idle"
    /\ cpu[p].n < MaxResume
    /\ cpu' = [cpu EXCEPT ![p] =
                  [pc |-> "foo_begin", child |-> "NONE", ret |-> "NONE", n |-> @.n + 1]]
    /\ UNCHANGED <<pt, fstack, bstack, lock>>

\* async_begin(pt) in foo: the dispatch.
FooBegin(p) ==
    /\ cpu[p].pc = "foo_begin"
    /\ LET entry == foo_entry(Mem, p) IN
        cpu' = [cpu EXCEPT
                  ![p].pc = IF entry = 0 THEN "foo_start"
                            ELSE IF entry = FooEndPoint THEN "foo_ret"
                            ELSE "bar_begin",
                  ![p].ret = IF entry = FooEndPoint THEN "FINISHED" ELSE @]
    /\ UNCHANGED <<pt, fstack, bstack, lock>>

\* foo's first segment, up to async_init(&stack->bar_pt).
FooStart(p) ==
    /\ cpu[p].pc = "foo_start"
    /\ SetMem(foo_start(Mem, foo_stack_addr(Mem, p)))
    /\ Goto(p, "bar_begin")

\* bar(&stack->bar_pt) is called and dispatches.
BarBegin(p) ==
    /\ cpu[p].pc = "bar_begin"
    /\ LET entry == bar_entry(Mem, foo_stack_addr(Mem, p)) IN
        cpu' = [cpu EXCEPT
                  ![p].pc = IF entry = 0 THEN "bar_start"
                            ELSE IF entry = BarEndPoint THEN "foo_await"
                            ELSE "bar_await",
                  ![p].child = IF entry = BarEndPoint THEN "FINISHED" ELSE @]
    /\ UNCHANGED <<pt, fstack, bstack, lock>>

\* puts("bar start");
BarStart(p) ==
    /\ cpu[p].pc = "bar_start"
    /\ Goto(p, "bar_await")
    /\ UNCHANGED <<pt, fstack, bstack, lock>>

\* A waiting loop in place of the await: the condition is evaluated again
\* until it holds.
bar_await_pc_spin(lk) == IF bar_await_cond(lk) THEN "bar_end" ELSE "bar_await"

\* Where await(*stack->lock) continues: at the next statement when the
\* condition holds, otherwise back in the caller.
bar_await_pc(lk) == IF bar_await_cond(lk) THEN "bar_end" ELSE "foo_await"

\* await(*stack->lock);
BarAwait(p) ==
    /\ cpu[p].pc = "bar_await"
    /\ LET f == foo_stack_addr(Mem, p)
           nxt == bar_await_pc(bar_lock(Mem, f))
       IN
        /\ cpu' = [cpu EXCEPT ![p].pc = nxt,
                              ![p].child = IF nxt = "foo_await" THEN "SUSPENDED" ELSE @]
        /\ fstack' = IF nxt = "foo_await"
                     THEN [fstack EXCEPT ![f].bar_pt = await(@, BarAwaitPoint, FALSE)]
                     ELSE fstack
    /\ UNCHANGED <<pt, bstack, lock>>

\* puts("bar end"); async_end;
BarEnd(p) ==
    /\ cpu[p].pc = "bar_end"
    /\ fstack' = [fstack EXCEPT ![foo_stack_addr(Mem, p)].bar_pt =
                      async_end(await(@, BarAwaitPoint, TRUE), BarEndPoint)]
    /\ cpu' = [cpu EXCEPT ![p].pc = "foo_await", ![p].child = "FINISHED"]
    /\ UNCHANGED <<pt, bstack, lock>>

\* await(bar(...)) in foo, once bar has returned.
FooAwait(p) ==
    /\ cpu[p].pc = "foo_await"
    /\ IF foo_await_cond(cpu[p].child)
       THEN /\ Goto(p, "foo_end")
            /\ pt' = pt
       ELSE /\ pt' = [pt EXCEPT ![p] = await(@, FooAwaitPoint, FALSE)]
            /\ cpu' = [cpu EXCEPT ![p].pc = "foo_ret", ![p].ret = "SUSPENDED"]
    /\ UNCHANGED <<fstack, bstack, lock>>

\* foo's last segment and async_end.
FooEnd(p) ==
    /\ cpu[p].pc = "foo_end"
    /\ pt' = [pt EXCEPT ![p] = async_end(await(@, FooAwaitPoint, TRUE), FooEndPoint)]
    /\ cpu' = [cpu EXCEPT ![p].pc = "foo_ret", ![p].ret = "FINISHED"]
    /\ UNCHANGED <<fstack, bstack, lock>>

\* The call returns to the driver.
FooReturn(p) ==
    /\ cpu[p].pc = "foo_ret"
    /\ Goto(p, "idle")
    /\ UNCHANGED <<pt, fstack, bstack, lock>>

\* One step of the call in progress on instance p.
Step(p) ==
    /\ \/ FooBegin(p)
       \/ FooStart(p)
       \/ BarBegin(p)
       \/ BarStart(p)
       \/ BarAwait(p)
       \/ BarEnd(p)
       \/ FooAwait(p)
       \/ FooEnd(p)
       \/ FooReturn(p)
    /\ UNCHANGED <<calls, barcalls, alone, reinit>>

\* lock = v; at any moment, also while a call is in progress.
WriteLock(p, v) ==
    /\ v # lock[p]
    /\ lock' = [lock EXCEPT ![p] = v]
    /\ UNCHANGED <<pt, fstack, bstack, calls, barcalls, alone, cpu, reinit>>

NextSteps ==
    \E p \in Inst :
        \/ CallFoo(p) /\ UNCHANGED <<calls, barcalls, alone, reinit>>
        \/ Step(p)
        \/ \E v \in LockVals : WriteLock(p, v)

\* A call in progress keeps executing; nothing obliges the driver to call
\* again or to write the lock.
SpecSteps ==
    /\ Init
    /\ [][NextSteps]_vars
    /\ \A p \in Inst : WF_vars(Step(p))

\* ---------------------------------------------------------------- claims
RECURSIVE Concat(_)
Concat(ss) == IF ss = <<>> THEN <<>> ELSE Head(ss) \o Concat(Tail(ss))

\* Every statement executed by the driver's calls of foo on instance p, in
\* order; Body leaves out the calls of bar themselves.
Executed(p) == Concat([k \in DOMAIN calls[p] |-> calls[p][k].out])
Body(p) == SelectSeq(Executed(p), LAMBDA s : s # "resume bar")

\* The straight-line segments of foo and bar in program order.
ProgramOrder ==
    foo_start_out \o <<"bar start", "bar end">> \o foo_end_out

IsPrefix(s, t) == Len(s) <= Len(t) /\ s = SubSeq(t, 1, Len(s))

Occurrences(s, x) == Cardinality({k \in DOMAIN s : s[k] = x})

\* C1: whatever the number of resume calls on foo and the values of the lock,
\* the statements executed by foo and bar so far form a prefix of the program
\* order (each segment at most once, in order), and a call that re-enters at
\* the await executes no statement located before that await.
C1_ResumptionCorrectness ==
    \A p \in Inst :
        /\ IsPrefix(Body(p), ProgramOrder)
        /\ \A s \in {"foo start", "num := 23", "init bar_pt", "foo end",
                     "bar start", "bar end"} : Occurrences(Executed(p), s) <= 1
        /\ \A k \in DOMAIN calls[p] :
               k > 1 => \A j \in DOMAIN calls[p][k].out :
                            /\ calls[p][k].out[j] \notin
                                   {foo_start_out[i] : i \in DOMAIN foo_start_out}
                            /\ calls[p][k].out[j] # "bar start"

\* An instance suspended twice and then ran to its end: its statements are
\* the whole program, once.
C1_Witness ==
    \E p \in Inst :
        /\ Len(calls[p]) = 3
        /\ calls[p][1].ret = "SUSPENDED"
        /\ calls[p][2].ret = "SUSPENDED"
        /\ calls[p][3].ret = "FINISHED"
        /\ Body(p) = ProgramOrder

\* C2: a call of foo that reaches the await returns SUSPENDED exactly when
\* the resume of bar made inside it returned SUSPENDED; the call after a
\* suspended one re-enters at the await and resumes bar, without initialising
\* bar_pt again and without starting foo or bar from the top; between the two
\* calls each block holds the position of its own await.
C2_CompositionCorrectness ==
    \A p \in Inst :
        /\ \A k \in DOMAIN calls[p] :
               LET c == calls[p][k] IN
               /\ c.child # "NONE" => (c.ret = "SUSPENDED" <=> c.child = "SUSPENDED")
               /\ (k > 1 /\ calls[p][k-1].ret = "SUSPENDED") =>
                      /\ c.child # "NONE"
                      /\ c.out \in {<<"resume bar">>,
                                    <<"resume bar", "bar end">> \o foo_end_out}
        /\ (calls[p] # <<>> /\ calls[p][Len(calls[p])].ret = "SUSPENDED") =>
               /\ pt[p].resumePoint = FooAwaitPoint
               /\ fstack[pt[p].stack].bar_pt.resumePoint = BarAwaitPoint

\* A suspended call followed by the call that resumes bar at its await and
\* finishes both.
C2_Witness ==
    \E p \in Inst :
        /\ Len(calls[p]) = 2
        /\ calls[p][1].ret = "SUSPENDED" /\ calls[p][1].child = "SUSPENDED"
        /\ calls[p][2].ret = "FINISHED" /\ calls[p][2].child = "FINISHED"
        /\ calls[p][2].out = <<"resume bar", "bar end">> \o foo_end_out

\* C3: the demo scenario.  The first resume of foo with the lock 0 returns
\* SUSPENDED; a second resume made with the lock nonzero completes bar and
\* foo and returns FINISHED; num is 23 in every state from the first resume on.
C3_DemoScenario ==
    \A p \in Inst :
        /\ calls[p] # <<>> => fstack[pt[p].stack].num = num_value
        /\ (calls[p] # <<>> /\ calls[p][1].lockseen = <<0>>) =>
               /\ calls[p][1].ret = "SUSPENDED"
               /\ calls[p][1].nums = <<num_value>>
        /\ (/\ Len(calls[p]) >= 2
            /\ calls[p][1].lockseen = <<0>>
            /\ calls[p][2].lockseen # <<0>>) =>
               /\ calls[p][2].ret = "FINISHED"
               /\ calls[p][2].child = "FINISHED"
               /\ calls[p][2].out = <<"resume bar", "bar end">> \o foo_end_out
               /\ calls[p][2].nums = <<num_value>>
               /\ pt[p].phase = "FINISHED"
               /\ fstack[pt[p].stack].bar_pt.phase = "FINISHED"

\* The demo has run on an instance: suspended with the lock 0, then finished
\* with the lock nonzero.
C3_Witness ==
    \E p \in Inst :
        /\ Len(calls[p]) = 2
        /\ calls[p][1].lockseen = <<0>> /\ calls[p][1].ret = "SUSPENDED"
        /\ calls[p][2].lockseen = <<1>> /\ calls[p][2].ret = "FINISHED"
        /\ fstack[pt[p].stack].num = num_value

\* C4: with the two instances driven in any interleaving, each instance has
\* the resume results, the executed statements and the block, frame and lock
\* values of the run in which it is driven alone.
C4_Reentrancy ==
    \A p \in Inst :
        /\ calls[p] = alone[p].calls
        /\ pt[p] = alone[p].m.pt[p]
        /\ fstack[p] = alone[p].m.fstack[p]
        /\ bstack[p] = alone[p].m.bstack[p]
        /\ lock[p] = alone[p].m.lock[p]

\* Both instances have been driven, to different points: one is suspended on
\* its lock while the other has finished.
C4_Witness ==
    /\ Len(calls[1]) = 2 /\ pt[1].phase = "SUSPENDED" /\ lock[1] = 0
    /\ Len(calls[2]) = 2 /\ pt[2].phase = "FINISHED" /\ lock[2] # 0
    /\ calls[2][1].ret = "SUSPENDED"

\* The child's control block of instance p, the last record of a log, and
\* the steps in which the driver calls foo or bar on instance p.
BarPt(p) == fstack[pt[p].stack].bar_pt
Last(s) == s[Len(s)]
FooCalled(p) == Len(calls'[p]) = Len(calls[p]) + 1
BarCalled(p) == Len(barcalls'[p]) = Len(barcalls[p]) + 1

\* C5: once foo has written num := 23 into its frame, every later read of
\* num, in particular the one after the await, gives 23, whatever the number
\* of suspended resumes of foo and of resumes of the other instance and of
\* the child bar in between.
C5_FramePersistence ==
    \A p \in Inst :
        /\ calls[p] # <<>> => fstack[pt[p].stack].num = num_value
        /\ \A k \in DOMAIN calls[p] :
               \A j \in DOMAIN calls[p][k].nums : calls[p][k].nums[j] = num_value

\* foo read num after its await, after two suspended resumes, a direct
\* resume of its child and resumes of the other instance.
C5_Witness ==
    \E p, q \in Inst :
        /\ p # q
        /\ Len(calls[p]) = 3
        /\ calls[p][1].ret = "SUSPENDED" /\ calls[p][2].ret = "SUSPENDED"
        /\ calls[p][3].ret = "FINISHED" /\ calls[p][3].nums = <<num_value>>
        /\ barcalls[p] # <<>>
        /\ Len(calls[q]) >= 2

NoOpFoo ==
    [ret |-> "FINISHED", child |-> "NONE", out |-> <<>>, nums |-> <<>>,
     locals |-> <<>>, lockseen |-> <<>>]

NoOpBar == [ret |-> "FINISHED", out |-> <<>>, lockseen |-> <<>>]

\* C6: a resume of a finished block (never initialised again since) reports
\* FINISHED and executes no statement of the body: a call of foo on a finished
\* foo prints nothing, writes nothing and does not resume the child; a resume
\* of a finished bar, by the driver or by a suspended foo, prints nothing,
\* reads no lock and leaves bar's block as it is.
C6_TerminalIdempotence ==
    [][\A p \in Inst :
        /\ (FooCalled(p) /\ pt[p].phase = "FINISHED") =>
               /\ Last(calls'[p]) = NoOpFoo
               /\ UNCHANGED <<pt, fstack, bstack, lock>>
        /\ (BarCalled(p) /\ BarPt(p).phase = "FINISHED") =>
               /\ Last(barcalls'[p]) = NoOpBar
               /\ UNCHANGED <<pt, fstack, bstack, lock>>
        /\ (FooCalled(p) /\ pt[p].phase = "SUSPENDED" /\ BarPt(p).phase = "FINISHED") =>
               /\ Last(calls'[p]).child = "FINISHED"
               /\ Last(calls'[p]).out = <<"resume bar">> \o foo_end_out
               /\ Last(calls'[p]).lockseen = <<>>
               /\ UNCHANGED <<fstack, bstack, lock>>
      ]_vars

\* foo was resumed after it had finished, and bar was resumed by the driver
\* after it had finished.
C6_Witness ==
    \E p \in Inst :
        /\ \E k \in DOMAIN calls[p] :
               k > 1 /\ calls[p][k-1].ret = "FINISHED" /\ calls[p][k] = NoOpFoo
        /\ barcalls[p] # <<>> /\ Last(barcalls[p]) = NoOpBar

EndStatements == {"bar end", "foo end", "print num 112", "print local_num 113"}

AllLockZero(p) == \A k \in DOMAIN calls[p] : calls[p][k].lockseen = <<0>>

NoneEnded(p) ==
    /\ \A k \in DOMAIN calls[p] : calls[p][k].ret = "SUSPENDED"
    /\ \A j \in DOMAIN Executed(p) : Executed(p)[j] \notin EndStatements

\* C7: a resume of an unfinished foo made while the lock is 0 leaves bar
\* SUSPENDED at its await and foo SUSPENDED at its await, returns SUSPENDED
\* and executes nothing past either await; and as long as every evaluation
\* of the lock gave 0, every resume of foo returned SUSPENDED and neither
\* 'bar end' nor 'foo end' was executed, however many resumes were made.
C7_SuspendingAwait ==
    [][\A p \in Inst :
        /\ (FooCalled(p) /\ lock[p] = 0 /\ pt[p].phase # "FINISHED") =>
               /\ BarPt(p)'.phase = "SUSPENDED"
               /\ BarPt(p)'.resumePoint = BarAwaitPoint
               /\ pt'[p].phase = "SUSPENDED"
               /\ pt'[p].resumePoint = FooAwaitPoint
               /\ Last(calls'[p]).ret = "SUSPENDED"
               /\ Last(calls'[p]).child = "SUSPENDED"
               /\ Last(calls'[p]).lockseen = <<0>>
               /\ Last(calls'[p]).out \in
                      {<<"resume bar">>,
                       foo_start_out \o <<"resume bar", "bar start">>}
        /\ (AllLockZero(p) => NoneEnded(p))'
      ]_vars

\* Three resumes of foo, each with the lock 0: all suspended.
C7_Witness ==
    \E p \in Inst :
        /\ Len(calls[p]) = 3
        /\ AllLockZero(p)
        /\ pt[p].phase = "SUSPENDED"
        /\ BarPt(p).phase = "SUSPENDED"

\* C8: when the lock is nonzero at the first resume of foo, that one call
\* runs foo and bar from top to end and returns FINISHED, and neither block
\* is SUSPENDED in any state; a resume returns SUSPENDED only if an await
\* condition was evaluated false in that call.
C8_NonSuspendingAwait ==
    \A p \in Inst :
        /\ calls[p] = <<>> =>
               pt[p].phase = "NOT_STARTED" /\ BarPt(p).phase = "NOT_STARTED"
        /\ (calls[p] # <<>> /\ calls[p][1].lockseen # <<0>>) =>
               /\ calls[p][1].ret = "FINISHED"
               /\ calls[p][1].out =
                      foo_start_out \o <<"resume bar", "bar start", "bar end">>
                                    \o foo_end_out
               /\ \A k \in DOMAIN calls[p] : calls[p][k].ret = "FINISHED"
               /\ pt[p].phase = "FINISHED"
               /\ BarPt(p).phase = "FINISHED"
        /\ \A k \in DOMAIN calls[p] :
               calls[p][k].ret = "SUSPENDED" =>
                   calls[p][k].lockseen = <<0>> /\ calls[p][k].child = "SUSPENDED"

\* The first resume of foo found the lock nonzero and finished.
C8_Witness ==
    \E p \in Inst :
        /\ Len(calls[p]) = 1
        /\ calls[p][1].lockseen # <<0>>
        /\ calls[p][1].ret = "FINISHED"
        /\ pt[p].phase = "FINISHED"

PhaseMoves ==
    {<<"NOT_STARTED", "SUSPENDED">>, <<"NOT_STARTED", "FINISHED">>,
     <<"SUSPENDED", "SUSPENDED">>, <<"SUSPENDED", "FINISHED">>}

PointOk(blk, awaitPoint, endPoint) ==
    /\ blk.resumePoint = 0 <=> blk.phase = "NOT_STARTED"
    /\ blk.phase # "NOT_STARTED" => blk.resumePoint \in {awaitPoint, endPoint}

\* C9: over resume calls without re-init, a resume moves the phase of foo's
\* block and of bar's block only NOT_STARTED -> SUSPENDED, NOT_STARTED ->
\* FINISHED, SUSPENDED -> SUSPENDED or SUSPENDED -> FINISHED, and leaves a
\* FINISHED block FINISHED; no step returns a block to NOT_STARTED; the resume
\* point is 0 exactly in phase NOT_STARTED and otherwise the position of the
\* task's await or end; the value a resume returns is the block's phase after
\* the call.
C9_Lifecycle ==
    [][\A p \in Inst :
        /\ pt[p].phase # pt'[p].phase => <<pt[p].phase, pt'[p].phase>> \in PhaseMoves
        /\ BarPt(p).phase # BarPt(p)'.phase =>
               <<BarPt(p).phase, BarPt(p)'.phase>> \in PhaseMoves
        /\ (FooCalled(p) /\ pt[p].phase # "FINISHED") =>
               <<pt[p].phase, pt'[p].phase>> \in PhaseMoves
        /\ PointOk(pt'[p], FooAwaitPoint, FooEndPoint)
        /\ PointOk(BarPt(p)', BarAwaitPoint, BarEndPoint)
        /\ FooCalled(p) =>
               /\ Last(calls'[p]).ret = pt'[p].phase
               /\ Last(calls'[p]).child # "NONE" =>
                      Last(calls'[p]).child = BarPt(p)'.phase
      ]_vars

\* An instance went NOT_STARTED -> SUSPENDED -> SUSPENDED -> FINISHED.
C9_Witness ==
    \E p \in Inst :
        /\ Len(calls[p]) = 3
        /\ calls[p][1].ret = "SUSPENDED" /\ calls[p][2].ret = "SUSPENDED"
        /\ calls[p][3].ret = "FINISHED"
        /\ pt[p].phase = "FINISHED" /\ pt[p].resumePoint = FooEndPoint
        /\ BarPt(p).phase = "FINISHED" /\ BarPt(p).resumePoint = BarEndPoint

\* C10: with a driver that keeps resuming foo until it reports FINISHED
\* (and has calls left within MaxResume), if the lock eventually becomes and
\* stays nonzero then foo eventually reports FINISHED; and every resume of
\* foo made while the lock is nonzero reports FINISHED, so foo finishes at
\* the first resume after the lock became nonzero.
C10_Progress ==
    /\ [][\A p \in Inst :
            (FooCalled(p) /\ lock[p] # 0) =>
                Last(calls'[p]).ret = "FINISHED" /\ pt'[p].phase = "FINISHED"
         ]_vars
    /\ \A p \in Inst :
           <>[](lock[p] # 0 /\ Len(calls[p]) < MaxResume) =>
               <>(/\ pt[p].phase = "FINISHED"
                  /\ calls[p] # <<>>
                  /\ Last(calls[p]).ret = "FINISHED")

\* foo suspended twice on the lock 0 and finished at the resume made once
\* the lock was nonzero.
C10_Witness ==
    \E p \in Inst :
        /\ Len(calls[p]) = 3
        /\ calls[p][1].lockseen = <<0>> /\ calls[p][2].lockseen = <<0>>
        /\ calls[p][3].lockseen # <<0>> /\ calls[p][3].ret = "FINISHED"
        /\ lock[p] # 0

\* C11: no resume call blocks.  While a call of foo (with the call of bar
\* inside it) is in progress its next statement can always execute, whatever
\* the phase of the blocks and the value of the lock; every call returns to
\* the driver with SUSPENDED or FINISHED, also when the lock stays 0 forever.
C11_NoResumeBlocks ==
    /\ [](\A p \in Inst : cpu[p].pc # "idle" => ENABLED <<Step(p)>>_vars)
    /\ \A p \in Inst :
           (cpu[p].pc # "idle") ~>
               (cpu[p].pc = "idle" /\ cpu[p].ret \in {"SUSPENDED", "FINISHED"})

\* Calls made with the lock 0 have returned SUSPENDED, the second of them on
\* a suspended block, and the lock is still 0.
C11_Witness ==
    \E p \in Inst :
        /\ cpu[p].pc = "idle"
        /\ cpu[p].n = 2
        /\ cpu[p].ret = "SUSPENDED"
        /\ cpu[p].child = "SUSPENDED"
        /\ lock[p] = 0

\* C12: variable lifetime rule.  A call of foo that re-enters at the await
\* after a suspension reads no transient local assigned before that await:
\* it does not read local_num.
C12_VariableLifetime ==
    \A p \in Inst :
        \A k \in DOMAIN calls[p] :
            (k > 1 /\ calls[p][k-1].ret = "SUSPENDED") => calls[p][k].locals = <<>>

\* C13: after the driver has called init again on foo's block, in any phase,
\* the block is NOT_STARTED with resume point 0 and the resume calls that
\* follow behave as on a freshly set-up instance: same results, statements
\* and values read, same block and, from the first resume on, same frame;
\* the first of them starts foo from the top, writes num := 23, initialises
\* bar_pt and starts bar from its top.
C13_ReInitForReuse ==
    \A p \in Inst :
        reinit[p] # "NONE" =>
            /\ calls[p] = alone[p].calls
            /\ pt[p] = alone[p].m.pt[p]
            /\ calls[p] = <<>> =>
                   pt[p].phase = "NOT_STARTED" /\ pt[p].resumePoint = 0
            /\ calls[p] # <<>> =>
                   /\ fstack[p] = alone[p].m.fstack[p]
                   /\ IsPrefix(foo_start_out \o <<"resume bar", "bar start">>,
                               calls[p][1].out)
                   /\ calls[p][1].nums[1] = num_value

\* One instance was initialised again while SUSPENDED, with bar suspended at
\* its await, and resumed; the other while FINISHED, and resumed.
C13_Witness ==
    \E p, q \in Inst :
        /\ reinit[p] = "SUSPENDED" /\ calls[p] # <<>>
        /\ calls[p][1].out = foo_start_out \o <<"resume bar", "bar start">>
        /\ reinit[q] = "FINISHED" /\ calls[q] # <<>>
        /\ calls[q][1].ret = "SUSPENDED"

\* C14: a resume call on one instance, of foo or directly of its child bar,
\* leaves the control block, the frame with its embedded child block, the bar
\* frame and the lock of every other instance unchanged; within its own
\* instance it changes only foo's block and foo's frame; and no task body
\* writes a lock: the locks and the bar frames are the same after any call.
C14_InstanceIsolation ==
    [][\A p \in Inst :
        (FooCalled(p) \/ BarCalled(p)) =>
            /\ \A q \in Inst \ {p} :
                   /\ pt'[q] = pt[q]
                   /\ fstack'[q] = fstack[q]
                   /\ bstack'[q] = bstack[q]
                   /\ lock'[q] = lock[q]
            /\ lock' = lock
            /\ bstack' = bstack
            /\ BarCalled(p) => pt' = pt /\ fstack'[p].num = fstack[p].num
      ]_vars

\* Instance 1 has been resumed to its end, its child also directly, while
\* instance 2 is still as the driver set it up.
C14_Witness ==
    /\ pt[1].phase = "FINISHED"
    /\ barcalls[1] # <<>>
    /\ lock[1] # 0
    /\ calls[2] = <<>>
    /\ pt[2] = InitMem.pt[2]
    /\ fstack[2] = InitMem.fstack[2]

\* The frame references as the driver set them: pt refers to the instance's
\* foo_stack, bar_pt to its bar_stack, and that to its lock.
FramesAsSetUp(p) ==
    /\ pt[p].stack = InitMem.pt[p].stack
    /\ pt[p].stack # NullFrame
    /\ BarPt(p).stack = InitMem.fstack[p].bar_pt.stack
    /\ BarPt(p).stack # NullFrame
    /\ bstack[BarPt(p).stack].lock = p

\* C15: init changes the resume point and the phase of a block only.  The
\* block the driver initialised before setting pt.stack is an initialised
\* block with its frame; after foo's async_init(&stack->bar_pt) bar_pt still
\* refers to the bar_stack the driver set, in every state, so the lock value
\* bar reads in a call is that of the driver's lock.
C15_InitKeepsFrame ==
    /\ [](\A p \in Inst :
             /\ FramesAsSetUp(p)
             /\ calls[p] = <<>> =>
                    pt[p] = [resumePoint |-> 0, phase |-> "NOT_STARTED", stack |-> p])
    /\ [][\A p \in Inst :
            (FooCalled(p) /\ Last(calls'[p]).lockseen # <<>>) =>
                Last(calls'[p]).lockseen = <<lock[p]>>
         ]_vars

\* foo has initialised bar_pt and bar has read the driver's lock, first 0
\* and then the value the driver wrote.
C15_Witness ==
    \E p \in Inst :
        /\ Len(calls[p]) = 2
        /\ calls[p][1].out = foo_start_out \o <<"resume bar", "bar start">>
        /\ calls[p][1].lockseen = <<0>>
        /\ lock[p] # 0
        /\ calls[p][2].lockseen = <<lock[p]>>
        /\ BarPt(p).stack = p

\* What the driver observes of a resume that only suspends again.
ReSuspended ==
    [ret |-> "SUSPENDED", child |-> "SUSPENDED", out |-> <<"resume bar">>,
     nums |-> <<>>, locals |-> <<>>, lockseen |-> <<0>>]

\* C16: a resume of foo made while foo is SUSPENDED and the lock is 0 returns
\* SUSPENDED, executes no print and leaves foo's block, foo's frame, bar's
\* block, bar's frame and the lock unchanged; hence, whatever the number of
\* such resumes, an instance that suspended and then finished has the same
\* final block and frame and finished with the same statements.
C16_ReSuspensionNoOp ==
    /\ [][\A p \in Inst :
            (FooCalled(p) /\ pt[p].phase = "SUSPENDED" /\ lock[p] = 0) =>
                /\ Last(calls'[p]) = ReSuspended
                /\ UNCHANGED <<pt, fstack, bstack, lock>>
         ]_vars
    /\ [](\A p \in Inst :
             (pt[p].phase = "FINISHED" /\ calls[p][1].ret = "SUSPENDED") =>
                 /\ pt[p] = [resumePoint |-> FooEndPoint, phase |-> "FINISHED",
                             stack |-> p]
                 /\ fstack[p] =
                        [num |-> num_value,
                         bar_pt |-> [resumePoint |-> BarEndPoint,
                                     phase |-> "FINISHED", stack |-> p]]
                 /\ \E k \in DOMAIN calls[p] :
                        /\ \A j \in 2..(k-1) : calls[p][j] = ReSuspended
                        /\ calls[p][k].ret = "FINISHED"
                        /\ calls[p][k].out =
                               <<"resume bar", "bar end">> \o foo_end_out)

\* foo suspended, was resumed with the lock still 0 and only suspended
\* again, and finished at the resume made with the lock nonzero.
C16_Witness ==
    \E p \in Inst :
        /\ Len(calls[p]) = 3
        /\ calls[p][1].ret = "SUSPENDED"
        /\ calls[p][2] = ReSuspended
        /\ calls[p][3].ret = "FINISHED"
        /\ fstack[p].num = num_value

\* C17: between two calls of a driver that resumes foo only, foo is SUSPENDED
\* exactly when its child bar is; a FINISHED foo has a FINISHED bar; bar has
\* left NOT_STARTED only if foo has; bar is not FINISHED while foo is
\* SUSPENDED at the await.
C17_PhaseConsistency ==
    \A p \in Inst :
        /\ pt[p].phase = "SUSPENDED" <=> BarPt(p).phase = "SUSPENDED"
        /\ pt[p].phase = "FINISHED" => BarPt(p).phase = "FINISHED"
        /\ BarPt(p).phase # "NOT_STARTED" => pt[p].phase # "NOT_STARTED"
        /\ ~(BarPt(p).phase = "FINISHED" /\ pt[p].phase = "SUSPENDED")

\* One instance is suspended with its child, the other has finished with
\* its child after a suspension.
C17_Witness ==
    \E p, q \in Inst :
        /\ pt[p].phase = "SUSPENDED" /\ BarPt(p).phase = "SUSPENDED"
        /\ pt[q].phase = "FINISHED" /\ BarPt(q).phase = "FINISHED"
        /\ Len(calls[q]) = 2 /\ calls[q][1].child = "SUSPENDED"

Has(s, x) == \E k \in DOMAIN s : s[k] = x

\* The position of the first x in s.
Pos(s, x) == CHOOSE k \in DOMAIN s : s[k] = x /\ \A j \in 1..(k-1) : s[j] # x

Before(s, x, y) == Has(s, y) => (Has(s, x) /\ Pos(s, x) < Pos(s, y))

\* C18: in the statements executed by the calls of foo on an instance,
\* 'foo start' comes before the init of bar_pt, that before the first resume
\* of bar, and that before 'bar start'; 'bar end' comes before 'foo end'; the
\* call in which foo ends is a call in which bar reported FINISHED to it, and
\* under this driver the one in which bar ended.
C18_EventOrdering ==
    \A p \in Inst :
        /\ Before(Executed(p), "foo start", "init bar_pt")
        /\ Before(Executed(p), "init bar_pt", "resume bar")
        /\ Before(Executed(p), "resume bar", "bar start")
        /\ Before(Executed(p), "bar end", "foo end")
        /\ \A k \in DOMAIN calls[p] :
               /\ calls[p][k].child # "NONE" => Has(calls[p][k].out, "resume bar")
               /\ Has(calls[p][k].out, "foo end") =>
                      /\ calls[p][k].ret = "FINISHED"
                      /\ calls[p][k].child = "FINISHED"
                      /\ Before(calls[p][k].out, "bar end", "foo end")
               /\ (calls[p][k].ret = "FINISHED" /\ calls[p][k].child # "NONE") =>
                      Has(calls[p][k].out, "foo end")

\* A whole run of foo over two calls: every event has happened.
C18_Witness ==
    \E p \in Inst :
        Executed(p) =
            foo_start_out \o <<"resume bar", "bar start", "resume bar", "bar end">>
                          \o foo_end_out

====
